---- MODULE Spec2Model ----
(***************************************************************************)
(* body-measurement-ai: setupCamera, loadPosenet, calculateDistance and    *)
(* detectPose of src/src/bodyMeasurement.ts, driven by the component of    *)
(* the README (src/unnamed/part_000): mount effect, then a polling timer.  *)
(*                                                                         *)
(* JavaScript values are records.  An object is a record of its own        *)
(* properties, so  'success' in v  is  "success" \in DOMAIN v.             *)
(* A number Math.sqrt(n), n a natural, is kept exactly as the pair         *)
(* int = floor(sqrt(n)), rem = n - int*int: it is the integer int exactly  *)
(* when rem = 0, and two such numbers are equal exactly when the pairs are.*)
(***************************************************************************)
EXTENDS Integers, Sequences, FiniteSets

VARIABLES
    callerPc,     \* position of the README's async setup()
    cameraResult, \* setup()'s const cameraResult
    netResult,    \* setup()'s const netResult
    result,       \* the component's React state `result`
    console,      \* the messages given to console.error so far
    camPc,        \* position of the setupCamera invocation
    gum,          \* the promise of navigator.mediaDevices.getUserMedia
    video,        \* the HTMLVideoElement passed to setupCamera
    camPromise,   \* the promise setupCamera returned
    netPc,        \* position of the loadPosenet invocation
    load,         \* the promise of posenet.load
    netPromise,   \* the promise loadPosenet returned
    inv           \* one detectPose invocation per timer tick

vars == <<callerPc, cameraResult, netResult, result, console, camPc, gum,
          video, camPromise, netPc, load, netPromise, inv>>

----------------------------------------------------------------------------
(* Bounds *)

\* Timer ticks modelled (setInterval itself never stops).
MaxTicks == 3

\* Longest keypoint array drawn with free order, names and duplicates.
MaxLen == 3

----------------------------------------------------------------------------
(* Values *)

Null == [null |-> TRUE]
Undefined == [undefined |-> TRUE]
VideoElement == [element |-> "video"]
PoseNetModel == [model |-> "posenet"]

Pending == [state |-> "pending"]
Fulfilled(v) == [state |-> "fulfilled", value |-> v]
Rejected == [state |-> "rejected"]

\* the `in` operator on an object
In(name, v) == name \in DOMAIN v

\* ToBoolean of an object reference: only null and undefined are falsy
Truthy(v) == ~ In("null", v) /\ ~ In("undefined", v)

Num(n) == [int |-> n, rem |-> 0]

RECURSIVE Newton(_, _)
Newton(n, r) ==
    LET s == (r + (n \div r)) \div 2
    IN  IF s >= r THEN r ELSE Newton(n, s)

\* floor of the square root
ISqrt(n) == IF n = 0 THEN 0 ELSE Newton(n, n)

\* Math.sqrt of a natural number, exact
MathSqrt(n) == LET r == ISqrt(n) IN [int |-> r, rem |-> n - r * r]

----------------------------------------------------------------------------
(* bodyMeasurement.ts: the three failures *)

CameraFailure ==
    [success |-> FALSE,
     message |-> "Failed to access the camera. Please check camera permissions."]

ModelFailure ==
    [success |-> FALSE,
     message |-> "Failed to load the PoseNet model. Please check your internet connection."]

\* faulty variant: the failure also carries zeroed measurements
PoseFailureBoth ==
    [success |-> FALSE,
     message |-> "Pose estimation failed. Could not detect key points.",
     shoulderWidth |-> Num(0), hipWidth |-> Num(0), height |-> Num(0)]

PoseFailure ==
    [success |-> FALSE,
     message |-> "Pose estimation failed. Could not detect key points."]

DetectionError ==
    [success |-> FALSE,
     message |-> "An error occurred during pose detection. Please try again."]

----------------------------------------------------------------------------
(* bodyMeasurement.ts: calculateDistance and the keypoint lookup *)

\* faulty variant: dy forgets point2
CalculateDistanceNoDy(point1, point2) ==
    LET dx == point1.x - point2.x
        dy == point1.y
    IN  MathSqrt(dx * dx + dy * dy)

\* faulty variant: |dx| + |dy|
CalculateDistanceManhattan(point1, point2) ==
    LET dx == point1.x - point2.x
        dy == point1.y - point2.y
        ax == IF dx < 0 THEN 0 - dx ELSE dx
        ay == IF dy < 0 THEN 0 - dy ELSE dy
    IN  Num(ax + ay)

CalculateDistance(point1, point2) ==
    LET dx == point1.x - point2.x
        dy == point1.y - point2.y
    IN  MathSqrt(dx * dx + dy * dy)

Matches(keypoints, part) == {i \in DOMAIN keypoints : keypoints[i].part = part}

\* faulty variant: the last match instead of the first
FindLast(keypoints, part) ==
    LET m == Matches(keypoints, part)
    IN  IF m = {} THEN Undefined
        ELSE keypoints[CHOOSE i \in m : \A j \in m : j <= i]

\* keypoints.find((k) => k.part === part)
Find(keypoints, part) ==
    LET m == Matches(keypoints, part)
    IN  IF m = {} THEN Undefined
        ELSE keypoints[CHOOSE i \in m : \A j \in m : i <= j]

ShoulderWidth(keypoints) ==
    LET leftShoulder == Find(keypoints, "leftShoulder")
        rightShoulder == Find(keypoints, "rightShoulder")
    IN  IF Truthy(leftShoulder) /\ Truthy(rightShoulder)
        THEN CalculateDistance(leftShoulder.position, rightShoulder.position)
        ELSE Num(0)

HipWidth(keypoints) ==
    LET leftHip == Find(keypoints, "leftHip")
        rightHip == Find(keypoints, "rightHip")
    IN  IF Truthy(leftHip) /\ Truthy(rightHip)
        THEN CalculateDistance(leftHip.position, rightHip.position)
        ELSE Num(0)

Height(keypoints) ==
    LET head == Find(keypoints, "nose")
        leftAnkle == Find(keypoints, "leftAnkle")
    IN  IF Truthy(head) /\ Truthy(leftAnkle)
        THEN CalculateDistance(head.position, leftAnkle.position)
        ELSE Num(0)

Measurements(keypoints) ==
    [shoulderWidth |-> ShoulderWidth(keypoints),
     hipWidth |-> HipWidth(keypoints),
     height |-> Height(keypoints)]

----------------------------------------------------------------------------
(* bodyMeasurement.ts: detectPose *)

Return(v) == [type |-> "return", value |-> v]
Throw == [type |-> "throw"]

TrackedParts ==
    {"leftShoulder", "rightShoulder", "leftHip", "rightHip", "nose", "leftAnkle"}

\* faulty variant: a missing pose read as an empty keypoint array
DetectPoseTryNoNullCheck(est) ==
    IF est.state = "rejected" THEN Throw
    ELSE LET pose == est.value
         IN  IF In("keypoints", pose) THEN Return(Measurements(pose.keypoints))
             ELSE IF Truthy(pose) THEN Throw
             ELSE Return(Measurements(<<>>))

\* faulty variant: any missing tracked keypoint is a failure
DetectPoseTryStrict(est) ==
    IF est.state = "rejected" THEN Throw
    ELSE LET pose == est.value
         IN  IF Truthy(pose)
             THEN IF ~ In("keypoints", pose) THEN Throw
                  ELSE IF \E p \in TrackedParts : Matches(pose.keypoints, p) = {}
                       THEN Return(PoseFailure)
                       ELSE Return(Measurements(pose.keypoints))
             ELSE Return(PoseFailure)

\* the try block of detectPose, resumed with the settled estimateSinglePose
\* promise: what it returns, or that it throws
DetectPoseTry(est) ==
    IF est.state = "rejected" THEN Throw
    ELSE LET pose == est.value
         IN  IF Truthy(pose)
             THEN IF ~ In("keypoints", pose) THEN Throw
                  ELSE Return(Measurements(pose.keypoints))
             ELSE Return(PoseFailure)

\* faulty variant: the last measurements shown are returned again
DetectPoseCached(est) ==
    IF In("height", result) THEN Fulfilled(result)
    ELSE LET c == DetectPoseTry(est)
         IN  IF c.type = "throw" THEN Fulfilled(DetectionError)
             ELSE Fulfilled(c.value)

\* faulty variant: no catch block
DetectPoseNoCatch(est) ==
    LET c == DetectPoseTry(est)
    IN  IF c.type = "throw" THEN Rejected ELSE Fulfilled(c.value)

\* the promise detectPose returns, once settled
DetectPose(est) ==
    LET c == DetectPoseTry(est)
    IN  IF c.type = "throw" THEN Fulfilled(DetectionError)
        ELSE Fulfilled(c.value)

----------------------------------------------------------------------------
(* What estimateSinglePose can settle with *)

Point(px, py) == [x |-> px, y |-> py]
Keypoint(name, pos) == [part |-> name, position |-> pos]
Pose(kps) == [keypoints |-> kps]

\* a pose object without a keypoints array: pose.keypoints.find throws
PoseNoKeypoints == [score |-> "low"]

Positions == {Point(0, 0), Point(3, 4), Point(1, 0)}

Parts == TrackedParts \cup {"rightAnkle"}

PartOrder ==
    <<"nose", "leftShoulder", "rightShoulder", "leftHip", "rightHip", "leftAnkle">>

Example1 ==
    << Keypoint("leftShoulder", Point(0, 0)), Keypoint("rightShoulder", Point(300, 0)),
       Keypoint("leftHip", Point(50, 200)), Keypoint("rightHip", Point(300, 200)),
       Keypoint("nose", Point(150, 0)), Keypoint("leftAnkle", Point(150, 600)) >>

Example2 ==
    << Keypoint("nose", Point(1, 0)), Keypoint("leftAnkle", Point(3, 4)) >>

Duplicated ==
    << Keypoint("leftHip", Point(0, 0)), Keypoint("rightHip", Point(3, 4)),
       Keypoint("rightHip", Point(1, 0)), Keypoint("leftHip", Point(3, 4)) >>

\* arrays of free order, names and repetition
ShortSeqs ==
    UNION {[1..n -> {Keypoint(p, q) : p \in Parts, q \in Positions}] : n \in 0..MaxLen}

\* each tracked part absent or present once, in PoseNet's order
PartialPoses ==
    {SelectSeq([i \in 1..Len(PartOrder) |-> Keypoint(PartOrder[i], c[PartOrder[i]])],
               LAMBDA k : k.position \in Positions) :
       c \in [TrackedParts -> Positions \cup {Undefined}]}

TickEstimates ==
    {Rejected, Fulfilled(Null), Fulfilled(Undefined), Fulfilled(PoseNoKeypoints),
     Fulfilled(Pose(Example1)), Fulfilled(Pose(Example2)), Fulfilled(Pose(Duplicated))}

PipelineEstimates ==
    TickEstimates \cup {Fulfilled(Pose(k)) : k \in ShortSeqs \cup PartialPoses}

----------------------------------------------------------------------------
(* bodyMeasurement.ts: setupCamera *)

MediaStream == [stream |-> "camera"]
ResolveHandler == [handler |-> "resolve(video)"]

\* 'success' in v && !v.success
IsFailure(v) == In("success", v) /\ ~ v.success

\* getUserMedia settles: the user grants or denies, the device is there or not
GetUserMediaSettles(granted) ==
    /\ gum = Pending
    /\ gum' = IF granted THEN Fulfilled(MediaStream) ELSE Rejected
    /\ UNCHANGED <<callerPc, cameraResult, netResult, result, console, camPc,
                   video, camPromise, netPc, load, netPromise, inv>>

\* faulty variant: returns the video without awaiting loadedmetadata
SetupCameraTryEager ==
    /\ camPc = "awaitGetUserMedia"
    /\ gum.state = "fulfilled"
    /\ video' = [video EXCEPT !.srcObject = gum.value]
    /\ camPromise' = Fulfilled(VideoElement)
    /\ camPc' = "done"
    /\ UNCHANGED <<callerPc, cameraResult, netResult, result, console, gum,
                   netPc, load, netPromise, inv>>

\* the try block resumed with the stream: srcObject, then the promise whose
\* executor installs onloadedmetadata; setupCamera's promise follows it
SetupCameraTry ==
    /\ camPc = "awaitGetUserMedia"
    /\ gum.state = "fulfilled"
    /\ video' = [video EXCEPT !.srcObject = gum.value,
                              !.onloadedmetadata = ResolveHandler]
    /\ camPc' = "awaitLoadedMetadata"
    /\ UNCHANGED <<callerPc, cameraResult, netResult, result, console, gum,
                   camPromise, netPc, load, netPromise, inv>>

\* the catch block, entered when the awaited getUserMedia rejected
SetupCameraCatch ==
    /\ camPc = "awaitGetUserMedia"
    /\ gum.state = "rejected"
    /\ camPromise' = Fulfilled(CameraFailure)
    /\ camPc' = "done"
    /\ UNCHANGED <<callerPc, cameraResult, netResult, result, console, gum,
                   video, netPc, load, netPromise, inv>>

\* the element fires loadedmetadata, once for the source it was given
LoadedMetadata ==
    /\ video.srcObject # Null
    /\ ~ video.metadataLoaded
    /\ video' = [video EXCEPT !.metadataLoaded = TRUE]
    /\ IF video.onloadedmetadata = ResolveHandler /\ camPromise = Pending
       THEN camPromise' = Fulfilled(VideoElement) /\ camPc' = "done"
       ELSE UNCHANGED <<camPromise, camPc>>
    /\ UNCHANGED <<callerPc, cameraResult, netResult, result, console, gum,
                   netPc, load, netPromise, inv>>

----------------------------------------------------------------------------
(* bodyMeasurement.ts: loadPosenet *)

\* posenet.load settles
LoadSettles(loaded) ==
    /\ load = Pending
    /\ load' = IF loaded THEN Fulfilled(PoseNetModel) ELSE Rejected
    /\ UNCHANGED <<callerPc, cameraResult, netResult, result, console, camPc,
                   gum, video, camPromise, netPc, netPromise, inv>>

\* loadPosenet resumed: return net, or the catch block
LoadPosenet ==
    /\ netPc = "awaitLoad"
    /\ load.state # "pending"
    /\ netPromise' = IF load.state = "fulfilled" THEN Fulfilled(load.value)
                     ELSE Fulfilled(ModelFailure)
    /\ netPc' = "done"
    /\ UNCHANGED <<callerPc, cameraResult, netResult, result, console, camPc,
                   gum, video, camPromise, load, inv>>

----------------------------------------------------------------------------
(* README: the component's mount effect and its polling timer *)

\* useEffect runs setup(): videoRef.current is set, setupCamera is called
Mount ==
    /\ callerPc = "idle"
    /\ callerPc' = "awaitCamera"
    /\ camPc' = "awaitGetUserMedia"
    /\ gum' = Pending
    /\ UNCHANGED <<cameraResult, netResult, result, console, video, camPromise,
                   netPc, load, netPromise, inv>>

\* faulty variant: the failure is logged but setup() does not return
CallerAfterCameraNoReturn ==
    /\ callerPc = "awaitCamera"
    /\ camPromise.state = "fulfilled"
    /\ cameraResult' = camPromise.value
    /\ console' = IF IsFailure(camPromise.value)
                  THEN console \cup {camPromise.value.message} ELSE console
    /\ callerPc' = "awaitModel"
    /\ netPc' = "awaitLoad"
    /\ load' = Pending
    /\ UNCHANGED <<netResult, result, gum, video, camPc, camPromise,
                   netPromise, inv>>

\* setup() resumed with cameraResult: report and return, or call loadPosenet
CallerAfterCamera ==
    /\ callerPc = "awaitCamera"
    /\ camPromise.state = "fulfilled"
    /\ cameraResult' = camPromise.value
    /\ IF IsFailure(camPromise.value)
       THEN /\ console' = console \cup {camPromise.value.message}
            /\ callerPc' = "halted"
            /\ UNCHANGED <<netPc, load>>
       ELSE /\ callerPc' = "awaitModel"
            /\ netPc' = "awaitLoad"
            /\ load' = Pending
            /\ UNCHANGED console
    /\ UNCHANGED <<netResult, result, gum, video, camPc, camPromise,
                   netPromise, inv>>

\* setup() resumed with netResult: report and return, or start the timer
CallerAfterModel ==
    /\ callerPc = "awaitModel"
    /\ netPromise.state = "fulfilled"
    /\ netResult' = netPromise.value
    /\ IF IsFailure(netPromise.value)
       THEN /\ console' = console \cup {netPromise.value.message}
            /\ callerPc' = "halted"
       ELSE /\ callerPc' = "polling"
            /\ UNCHANGED console
    /\ UNCHANGED <<cameraResult, result, camPc, gum, video, camPromise, netPc,
                   load, netPromise>>
    /\ UNCHANGED inv

\* the i-th timer callback: detectPose is called and awaits estimateSinglePose
Tick(i) ==
    /\ callerPc = "polling"
    /\ inv[i].st = "unfired"
    /\ \A j \in 1..(i - 1) : inv[j].st # "unfired"
    /\ inv' = [inv EXCEPT ![i] = [st |-> "awaitEstimate"]]
    /\ UNCHANGED <<callerPc, cameraResult, netResult, result, console, camPc,
                   gum, video, camPromise, netPc, load, netPromise>>

\* estimateSinglePose settles for invocation i
EstimateSettles(i, est) ==
    /\ inv[i].st = "awaitEstimate"
    /\ inv' = [inv EXCEPT ![i] = [st |-> "settled", est |-> est]]
    /\ UNCHANGED <<callerPc, cameraResult, netResult, result, console, camPc,
                   gum, video, camPromise, netPc, load, netPromise>>

\* detectPose resumed for invocation i, run to its return
DetectPoseResume(i) ==
    /\ inv[i].st = "settled"
    /\ inv' = [inv EXCEPT ![i] = [st |-> "returned", est |-> inv[i].est,
                                  promise |-> DetectPose(inv[i].est)]]
    /\ UNCHANGED <<callerPc, cameraResult, netResult, result, console, camPc,
                   gum, video, camPromise, netPc, load, netPromise>>

\* the timer callback resumed with poseResult: console.error or setResult
TickHandle(i) ==
    /\ inv[i].st = "returned"
    /\ inv[i].promise.state = "fulfilled"
    /\ inv' = [inv EXCEPT ![i].st = "handled"]
    /\ IF IsFailure(inv[i].promise.value)
       THEN /\ console' = console \cup {inv[i].promise.value.message}
            /\ UNCHANGED result
       ELSE /\ result' = inv[i].promise.value
            /\ UNCHANGED console
    /\ UNCHANGED <<callerPc, cameraResult, netResult, camPc, gum, video,
                   camPromise, netPc, load, netPromise>>

----------------------------------------------------------------------------
(* Specifications *)

Ticks == DOMAIN inv

\* the component before its effect has run
Init ==
    /\ callerPc = "idle"
    /\ cameraResult = Undefined
    /\ netResult = Undefined
    /\ result = Null
    /\ console = {}
    /\ camPc = "notCalled"
    /\ gum = Undefined
    /\ video = [srcObject |-> Null, onloadedmetadata |-> Null,
                metadataLoaded |-> FALSE]
    /\ camPromise = Pending
    /\ netPc = "notCalled"
    /\ load = Undefined
    /\ netPromise = Pending
    /\ inv = [i \in 1..MaxTicks |-> [st |-> "unfired"]]

Next ==
    \/ Mount
    \/ \E granted \in BOOLEAN : GetUserMediaSettles(granted)
    \/ SetupCameraTry
    \/ SetupCameraCatch
    \/ LoadedMetadata
    \/ CallerAfterCamera
    \/ \E loaded \in BOOLEAN : LoadSettles(loaded)
    \/ LoadPosenet
    \/ CallerAfterModel
    \/ \E i \in Ticks : Tick(i)
    \/ \E i \in Ticks, est \in TickEstimates : EstimateSettles(i, est)
    \/ \E i \in Ticks : DetectPoseResume(i)
    \/ \E i \in Ticks : TickHandle(i)

Spec == Init /\ [][Next]_vars

\* camera and model are ready and setup() has just set the timer
Ready ==
    /\ callerPc = "polling"
    /\ cameraResult = VideoElement
    /\ netResult = PoseNetModel
    /\ result = Null
    /\ console = {}
    /\ camPc = "done"
    /\ gum = Fulfilled(MediaStream)
    /\ video = [srcObject |-> MediaStream, onloadedmetadata |-> ResolveHandler,
                metadataLoaded |-> TRUE]
    /\ camPromise = Fulfilled(VideoElement)
    /\ netPc = "done"
    /\ load = Fulfilled(PoseNetModel)
    /\ netPromise = Fulfilled(PoseNetModel)

\* The pipeline alone: the first timer callback has called detectPose and
\* estimateSinglePose has settled with any of the PipelineEstimates.
InitPipeline ==
    /\ Ready
    /\ \E est \in PipelineEstimates : inv = <<[st |-> "settled", est |-> est]>>

NextPipeline ==
    \/ \E i \in Ticks : DetectPoseResume(i)
    \/ \E i \in Ticks : TickHandle(i)

SpecPipeline == InitPipeline /\ [][NextPipeline]_vars

----------------------------------------------------------------------------
(* Vocabulary of the properties *)

\* invocation i of detectPose has settled its promise
Returned(i) == inv[i].st \in {"returned", "handled"}

\* estimateSinglePose gave invocation i a pose with a keypoint array
GotKeypoints(i) ==
    /\ inv[i].st # "unfired" /\ inv[i].st # "awaitEstimate"
    /\ inv[i].est.state = "fulfilled"
    /\ In("keypoints", inv[i].est.value)

MeasurementFields == {"shoulderWidth", "hipWidth", "height"}

IsMeasurementsRecord(v) == DOMAIN v = MeasurementFields

IsErrorResult(v) == DOMAIN v = {"success", "message"} /\ v.success = FALSE

Pairs ==
    {[m |-> "shoulderWidth", a |-> "leftShoulder", b |-> "rightShoulder"],
     [m |-> "hipWidth", a |-> "leftHip", b |-> "rightHip"],
     [m |-> "height", a |-> "nose", b |-> "leftAnkle"]}

Has(k, part) == \E i \in DOMAIN k : k[i].part = part

Once(k, part) == Cardinality({i \in DOMAIN k : k[i].part = part}) = 1

Earliest(k, part) ==
    k[CHOOSE i \in DOMAIN k :
        k[i].part = part /\ \A j \in 1..(i - 1) : k[j].part # part]

SquaredDistance(p, q) == (p.x - q.x) * (p.x - q.x) + (p.y - q.y) * (p.y - q.y)

\* m is the number sqrt(n)
IsSqrtOf(m, n) ==
    /\ m.int >= 0 /\ m.rem >= 0
    /\ m.int * m.int + m.rem = n
    /\ n < (m.int + 1) * (m.int + 1)

\* the keypoints named in parts, in their order
Only(k, parts) == SelectSeq(k, LAMBDA e : e.part \in parts)

\* the array with every entry after the first of its part name dropped
FirstOnly(k) ==
    LET keep == {i \in DOMAIN k : \A j \in 1..(i - 1) : k[j].part # k[i].part}
        F[i \in 0..Len(k)] ==
            IF i = 0 THEN <<>>
            ELSE IF i \in keep THEN Append(F[i - 1], k[i]) ELSE F[i - 1]
    IN  F[Len(k)]

\* the array with the keypoints named a and those named b exchanged
Exchange(k, a, b) ==
    [i \in DOMAIN k |->
        IF k[i].part = a THEN Keypoint(b, k[i].position)
        ELSE IF k[i].part = b THEN Keypoint(a, k[i].position)
        ELSE k[i]]

----------------------------------------------------------------------------
(* The measurement pipeline (SpecPipeline) *)

\* C1: when estimateSinglePose gave a keypoint array in which one or both
\* keypoints of a pair are missing, detectPose fulfils with a Measurements
\* record (no success marker) whose measurement for that pair is exactly 0,
\* and each other measurement is what the keypoints of its own pair alone give.
C1_MissingPairIsZero ==
    \A i \in Ticks :
        Returned(i) /\ GotKeypoints(i) =>
            LET k == inv[i].est.value.keypoints
                p == inv[i].promise
            IN  \A pr \in Pairs :
                    ~ Has(k, pr.a) \/ ~ Has(k, pr.b) =>
                        /\ p.state = "fulfilled"
                        /\ IsMeasurementsRecord(p.value)
                        /\ ~ IsFailure(p.value)
                        /\ p.value[pr.m] = Num(0)
                        /\ \A o \in Pairs \ {pr} :
                               /\ Has(k, o.a) /\ Has(k, o.b) =>
                                      IsSqrtOf(p.value[o.m],
                                               SquaredDistance(Earliest(k, o.a).position,
                                                               Earliest(k, o.b).position))
                               /\ p.value[o.m] =
                                      Measurements(Only(k, {o.a, o.b}))[o.m]

\* a right shoulder without a left one, both hips five apart: 0 and 5
C1_Witness ==
    \E i \in Ticks :
        /\ Returned(i) /\ GotKeypoints(i)
        /\ ~ Has(inv[i].est.value.keypoints, "leftShoulder")
        /\ Has(inv[i].est.value.keypoints, "rightShoulder")
        /\ Has(inv[i].est.value.keypoints, "leftHip")
        /\ Has(inv[i].est.value.keypoints, "rightHip")
        /\ inv[i].promise.value.shoulderWidth = Num(0)
        /\ inv[i].promise.value.hipWidth = Num(5)

\* C2: when both keypoints of a pair are in the array (once each), the
\* measurement is the number sqrt(dx*dx + dy*dy) of their two positions,
\* unscaled; the keypoints of Example 1 give 300, 250 and 600.
C2_EuclideanDistance ==
    \A i \in Ticks :
        Returned(i) /\ GotKeypoints(i) =>
            LET k == inv[i].est.value.keypoints
                p == inv[i].promise
            IN  /\ \A pr \in Pairs :
                       Once(k, pr.a) /\ Once(k, pr.b) =>
                           /\ p.state = "fulfilled"
                           /\ IsMeasurementsRecord(p.value)
                           /\ IsSqrtOf(p.value[pr.m],
                                       SquaredDistance(Earliest(k, pr.a).position,
                                                       Earliest(k, pr.b).position))
                /\ k = Example1 =>
                       p = Fulfilled([shoulderWidth |-> Num(300),
                                      hipWidth |-> Num(250),
                                      height |-> Num(600)])

\* Example 1 has returned its three measurements
C2_Witness ==
    \E i \in Ticks :
        /\ Returned(i) /\ GotKeypoints(i)
        /\ inv[i].est.value.keypoints = Example1
        /\ inv[i].promise.value.hipWidth = Num(250)

\* a distance that is no integer: sqrt(20) between (1,0) and (3,4)
C2_WitnessIrrational ==
    \E i \in Ticks :
        /\ Returned(i) /\ GotKeypoints(i)
        /\ Once(inv[i].est.value.keypoints, "nose")
        /\ Once(inv[i].est.value.keypoints, "leftAnkle")
        /\ inv[i].promise.value.height.rem > 0

\* C8: calculateDistance(A, B) = calculateDistance(B, A) for the positions of
\* any two keypoints, and exchanging the two keypoints of any pair leaves
\* the settled result of detectPose as it is.
C8_DistanceSymmetric ==
    \A i \in Ticks :
        Returned(i) /\ GotKeypoints(i) =>
            LET k == inv[i].est.value.keypoints
            IN  /\ \A m, n \in DOMAIN k :
                       CalculateDistance(k[m].position, k[n].position)
                           = CalculateDistance(k[n].position, k[m].position)
                /\ \A pr \in Pairs :
                       inv[i].promise = DetectPose(Fulfilled(Pose(Exchange(k, pr.a, pr.b))))

\* both shoulders found, at positions that differ in x and in y
C8_Witness ==
    \E i \in Ticks :
        /\ Returned(i) /\ GotKeypoints(i)
        /\ LET k == inv[i].est.value.keypoints
           IN  /\ Has(k, "leftShoulder") /\ Has(k, "rightShoulder")
               /\ Earliest(k, "leftShoulder").position.x
                      # Earliest(k, "rightShoulder").position.x
               /\ Earliest(k, "leftShoulder").position.y
                      # Earliest(k, "rightShoulder").position.y
               /\ inv[i].promise.value.shoulderWidth # Num(0)

\* C9: with several entries of one part name in the array, each measurement
\* is taken from the earliest entry of each name, and the result is the one
\* the array gives once every later entry of a repeated name is dropped.
C9_FirstMatchWins ==
    \A i \in Ticks :
        Returned(i) /\ GotKeypoints(i) =>
            LET k == inv[i].est.value.keypoints
                p == inv[i].promise
            IN  /\ p.state = "fulfilled"
                /\ IsMeasurementsRecord(p.value)
                /\ \A pr \in Pairs :
                       Has(k, pr.a) /\ Has(k, pr.b) =>
                           IsSqrtOf(p.value[pr.m],
                                    SquaredDistance(Earliest(k, pr.a).position,
                                                    Earliest(k, pr.b).position))
                /\ p = DetectPose(Fulfilled(Pose(FirstOnly(k))))

\* rightHip twice, the later entry elsewhere and at another distance
C9_Witness ==
    \E i \in Ticks :
        /\ Returned(i) /\ GotKeypoints(i)
        /\ LET k == inv[i].est.value.keypoints
           IN  \E m, n \in DOMAIN k :
                   /\ m < n
                   /\ k[m].part = "rightHip" /\ k[n].part = "rightHip"
                   /\ Has(k, "leftHip")
                   /\ SquaredDistance(Earliest(k, "leftHip").position, k[m].position)
                          # SquaredDistance(Earliest(k, "leftHip").position, k[n].position)
                   /\ inv[i].promise.value.hipWidth # Num(0)

----------------------------------------------------------------------------
(* The component and the three entry points (Spec) *)

\* C3: when estimateSinglePose fulfils without a pose object (null or
\* undefined), detectPose fulfils with exactly { success: false, message:
\* "Pose estimation failed. Could not detect key points." } and with no
\* measurement field.
C3_NoPoseIsDetectionFailed ==
    \A i \in Ticks :
        /\ Returned(i)
        /\ inv[i].est.state = "fulfilled"
        /\ inv[i].est.value \in {Null, Undefined}
        => /\ inv[i].promise =
                  Fulfilled([success |-> FALSE,
                             message |-> "Pose estimation failed. Could not detect key points."])
           /\ DOMAIN inv[i].promise.value \cap MeasurementFields = {}
           /\ (inv[i].st = "handled" => result # inv[i].promise.value)

\* a callback whose estimate found nobody has reported the failure
C3_Witness ==
    \E i \in Ticks :
        /\ inv[i].st = "handled"
        /\ inv[i].est = Fulfilled(Null)
        /\ "Pose estimation failed. Could not detect key points." \in console

\* C4: the promises of setupCamera, loadPosenet and detectPose are never
\* rejected; when getUserMedia rejected, posenet.load rejected,
\* estimateSinglePose rejected or the pose had no keypoints to look up, the
\* promise is fulfilled with a { success: false, message } value.
C4_FailuresAreCaught ==
    /\ camPromise.state # "rejected"
    /\ netPromise.state # "rejected"
    /\ gum = Rejected /\ camPc = "done" =>
           camPromise.state = "fulfilled" /\ IsErrorResult(camPromise.value)
    /\ load = Rejected /\ netPc = "done" =>
           netPromise.state = "fulfilled" /\ IsErrorResult(netPromise.value)
    /\ \A i \in Ticks :
           Returned(i) =>
               /\ inv[i].promise.state = "fulfilled"
               /\ (\/ inv[i].est = Rejected
                   \/ inv[i].est = Fulfilled(PoseNoKeypoints))
                  => IsErrorResult(inv[i].promise.value)

\* estimateSinglePose rejected for one callback and the lookup threw for
\* another, after a run in which camera and model were obtained
C4_Witness ==
    \E i, j \in Ticks :
        /\ Returned(i) /\ inv[i].est = Rejected
        /\ Returned(j) /\ inv[j].est = Fulfilled(PoseNoKeypoints)
        /\ inv[i].promise = Fulfilled(DetectionError)

\* C5: a settled detectPose promise is fulfilled with exactly one of: a
\* record of shoulderWidth, hipWidth, height and nothing else, or a record of
\* success (false) and message and nothing else; the caller's test
\* 'success' in v && !v.success is true of the second and false of the first,
\* so the component's state `result` never holds a failure.
C5_ExactlyOneVariant ==
    /\ \A i \in Ticks :
           Returned(i) =>
               /\ inv[i].promise.state = "fulfilled"
               /\ LET v == inv[i].promise.value
                  IN  /\ IsMeasurementsRecord(v) \/ IsErrorResult(v)
                      /\ ~ (IsMeasurementsRecord(v) /\ IsErrorResult(v))
                      /\ IsFailure(v) <=> IsErrorResult(v)
                      /\ DOMAIN v \cap MeasurementFields # {} => ~ In("success", v)
                      /\ inv[i].st = "handled" /\ IsErrorResult(v) => v.message \in console
    /\ result = Null \/ IsMeasurementsRecord(result)

\* one callback has set measurements, another has reported a failure
C5_Witness ==
    \E i, j \in Ticks :
        /\ inv[i].st = "handled" /\ IsMeasurementsRecord(inv[i].promise.value)
        /\ inv[j].st = "handled" /\ IsErrorResult(inv[j].promise.value)
        /\ IsMeasurementsRecord(result)

\* setupCamera, respectively loadPosenet, has returned success to setup()
CameraSucceeded == camPromise.state = "fulfilled" /\ ~ IsFailure(camPromise.value)
ModelSucceeded == netPromise.state = "fulfilled" /\ ~ IsFailure(netPromise.value)

C6_Order ==
    /\ netPc # "notCalled" => CameraSucceeded /\ cameraResult = VideoElement
    /\ \A i \in Ticks :
           inv[i].st # "unfired" =>
               /\ CameraSucceeded /\ ModelSucceeded
               /\ cameraResult = VideoElement /\ netResult = PoseNetModel
    /\ callerPc = "awaitModel" => CameraSucceeded
    /\ callerPc = "polling" => CameraSucceeded /\ ModelSucceeded
    /\ callerPc = "halted" =>
           \/ cameraResult = CameraFailure /\ netPc = "notCalled"
           \/ netResult = ModelFailure /\ CameraSucceeded

C6_Step ==
    /\ callerPc' # callerPc =>
           <<callerPc, callerPc'>> \in
               {<<"idle", "awaitCamera">>, <<"awaitCamera", "awaitModel">>,
                <<"awaitModel", "polling">>, <<"awaitCamera", "halted">>,
                <<"awaitModel", "halted">>}
    /\ callerPc = "halted" => UNCHANGED vars
    /\ camPc # "notCalled" => camPc' # "awaitGetUserMedia" \/ camPc = camPc'
    /\ gum # Undefined /\ gum # Pending => gum' = gum
    /\ netPc # "notCalled" => netPc' # "awaitLoad" \/ netPc = netPc'
    /\ load # Undefined /\ load # Pending => load' = load

\* C6: setup() moves idle -> awaitCamera -> awaitModel -> polling and no
\* other way; loadPosenet is started only after setupCamera returned success
\* and detectPose is called only after both did; once setupCamera or
\* loadPosenet has returned a failure nothing changes any more: the failed
\* step is not called again and no later step starts.
C6_Progression == [] C6_Order /\ [][C6_Step]_vars

\* the model failed to load after the camera was ready: setup() has halted
C6_Witness ==
    /\ callerPc = "halted"
    /\ cameraResult = VideoElement
    /\ netResult = ModelFailure
    /\ \A i \in Ticks : inv[i].st = "unfired"

C7_SameInputSameResult ==
    \A i, j \in Ticks :
        Returned(i) /\ Returned(j) /\ inv[i].est = inv[j].est =>
            inv[i].promise = inv[j].promise

C7_Step ==
    \A i \in Ticks :
        inv[i].st = "settled" /\ inv'[i].st = "returned" =>
            /\ inv'[i].est = inv[i].est
            /\ \A j \in Ticks \ {i} : inv'[j] = inv[j]
            /\ UNCHANGED <<callerPc, cameraResult, netResult, result, console,
                           camPc, gum, video, camPromise, netPc, load, netPromise>>

C10_Ready ==
    /\ camPromise = Fulfilled(VideoElement) =>
           /\ gum = Fulfilled(MediaStream)
           /\ video.srcObject = MediaStream
           /\ video.metadataLoaded
    /\ camPc = "awaitLoadedMetadata" =>
           /\ camPromise = Pending
           /\ ~ video.metadataLoaded
           /\ video.srcObject = MediaStream
           /\ video.onloadedmetadata = ResolveHandler
    /\ gum = Rejected =>
           /\ video.srcObject = Null
           /\ video.onloadedmetadata = Null
           /\ camPromise \in {Pending, Fulfilled(CameraFailure)}
    /\ gum = Rejected /\ camPc = "done" => camPromise = Fulfilled(CameraFailure)
    /\ camPromise.state = "fulfilled" =>
           camPromise.value \in {VideoElement, CameraFailure}

C10_Step ==
    /\ camPromise = Pending /\ camPromise' = Fulfilled(VideoElement) =>
           /\ video.srcObject = MediaStream
           /\ ~ video.metadataLoaded /\ video'.metadataLoaded
    /\ ~ video.metadataLoaded /\ video'.metadataLoaded =>
           video.srcObject = MediaStream /\ camPromise' = Fulfilled(VideoElement)
    /\ camPromise # Pending => camPromise' = camPromise

\* C10: setupCamera's promise is fulfilled with the video element only by the
\* loadedmetadata event of an element whose srcObject is the stream that
\* getUserMedia fulfilled with, and stays pending until that event; when
\* getUserMedia rejected it is fulfilled with the camera ErrorResult while
\* srcObject and onloadedmetadata are still unset.
C10_CameraReady == [] C10_Ready /\ [][C10_Step]_vars

\* the camera was granted and the metadata event has resolved the promise
C10_Witness ==
    /\ camPromise = Fulfilled(VideoElement)
    /\ video.metadataLoaded
    /\ cameraResult = VideoElement

====
